---- MODULE Spec2Model ----
(***************************************************************************)
(* reposcan: source acquisition (src/utils/repo_handler.py), the plugin    *)
(* loop and the cleanup of main() (src/main.py), the plugins' scan methods *)
(* (src/plugins) and the report generator (src/utils/report_generator.py). *)
(*                                                                         *)
(* Python strings are sequences of one-character strings, so that prefix   *)
(* tests, substring tests, replace, split and basename are computed the    *)
(* way the code computes them.  The filesystem is a pair of sets of        *)
(* absolute paths (directories, regular files).                            *)
(***************************************************************************)
EXTENDS Naturals, Integers, Sequences, FiniteSets, TLC

----------------------------------------------------------------------------
(* String literals of the source                                           *)

\* the literal "https://github.com/" (repo_handler.py:60,71,104,131)
GITHUB_URL_PREFIX == <<"h","t","t","p","s",":","/","/","g","i","t","h","u","b",".","c","o","m","/">>

\* the literal "github:" (repo_handler.py:73,128)
GITHUB_SHORT_PREFIX == <<"g","i","t","h","u","b",":">>

\* the literal "/blob/" (repo_handler.py:61,71,344)
BLOB_SEGMENT == <<"/","b","l","o","b","/">>

\* the literal "pypi:" (repo_handler.py:84)
PYPI_PREFIX == <<"p","y","p","i",":">>

\* the literal "pip:" (repo_handler.py:84)
PIP_PREFIX == <<"p","i","p",":">>

\* the literal "npm:" (repo_handler.py:92,410)
NPM_PREFIX == <<"n","p","m",":">>

\* the literal "http://" (repo_handler.py:102)
HTTP_PREFIX == <<"h","t","t","p",":","/","/">>

\* the literal "https://" (repo_handler.py:102)
HTTPS_PREFIX == <<"h","t","t","p","s",":","/","/">>

\* the literal "github.com" (repo_handler.py:343)
GITHUB_HOST == <<"g","i","t","h","u","b",".","c","o","m">>

\* the literal "raw.githubusercontent.com" (repo_handler.py:343)
RAW_HOST == <<"r","a","w",".","g","i","t","h","u","b","u","s","e","r","c","o","n","t","e","n","t",".","c","o","m">>

\* the literal "repo_scan_" (main.py:68)
REPO_SCAN_MARK == <<"r","e","p","o","_","s","c","a","n","_">>

\* the literal "/tmp/repo_scan_" (main.py:68)
TMP_REPO_SCAN == <<"/","t","m","p","/","r","e","p","o","_","s","c","a","n","_">>

\* mkdtemp prefix of fetch_github_repo (repo_handler.py:136)
PREFIX_CLONE == <<"r","e","p","o","_","s","c","a","n","_">>

\* mkdtemp prefix of fetch_pypi_package (repo_handler.py:176)
PREFIX_PYPI == <<"r","e","p","o","_","s","c","a","n","_","p","y","p","i","_">>

\* mkdtemp prefix of fetch_npm_package (repo_handler.py:289)
PREFIX_NPM == <<"r","e","p","o","_","s","c","a","n","_","n","p","m","_">>

\* mkdtemp prefix of fetch_remote_file (repo_handler.py:363)
PREFIX_FILE == <<"r","e","p","o","_","s","c","a","n","_","f","i","l","e","_">>

\* the literal "extracted" (repo_handler.py:177,290)
EXTRACTED == <<"e","x","t","r","a","c","t","e","d">>

\* the literal 'package' (repo_handler.py:317)
PACKAGE == <<"p","a","c","k","a","g","e">>
\* tempfile.gettempdir(), the directory mkdtemp creates in (repo_handler.py:136,176,289,363)
TMPDIR == <<"/","t","m","p">>

\* the random suffix mkdtemp appends to its prefix (repo_handler.py:136)
TMP_SUFFIX == <<"x">>

\* os.path.basename(sdist_url), the downloaded archive (repo_handler.py:200)
SDIST_NAME == <<"p","-","1",".","t","a","r",".","g","z">>

\* the archive a generic pip download leaves in tmp_dir (repo_handler.py:233-241)
WHEEL_NAME == <<"p","-","1",".","w","h","l">>

\* tarball_name, the file npm pack prints (repo_handler.py:305)
TARBALL_NAME == <<"p","-","1",".","t","g","z">>

\* the single top-level directory of an extracted archive (repo_handler.py:170-173)
PKG_TOPDIR == <<"p","-","1">>

\* a Python source file in the scanned tree
A_PY == <<"a",".","p","y">>


\* the manifest name searched by rglob (dependency_plugin.py:204)
REQUIREMENTS_TXT == <<"r","e","q","u","i","r","e","m","e","n","t","s",".","t","x","t">>

\* the manifest name searched by rglob (dependency_plugin.py:215)
PYPROJECT_TOML == <<"p","y","p","r","o","j","e","c","t",".","t","o","m","l">>

\* the manifest name searched by rglob (dependency_plugin.py:227)
PACKAGE_JSON == <<"p","a","c","k","a","g","e",".","j","s","o","n">>
\* the command-line argument "https://github.com/o/n"
IN_GH_URL == <<"h","t","t","p","s",":","/","/","g","i","t","h","u","b",".","c","o","m","/","o","/","n">>

\* the command-line argument "https://github.com/o/n.git"
IN_GH_GIT == <<"h","t","t","p","s",":","/","/","g","i","t","h","u","b",".","c","o","m","/","o","/","n",".","g","i","t">>

\* the command-line argument "github:o/n"
IN_GH_SHORT == <<"g","i","t","h","u","b",":","o","/","n">>

\* the command-line argument "https://github.com/o/n/blob/m/a.py"
IN_GH_FILE == <<"h","t","t","p","s",":","/","/","g","i","t","h","u","b",".","c","o","m","/","o","/","n","/","b","l","o","b","/","m","/","a",".","p","y">>

\* the command-line argument "github:o/n/blob/m/a.py"
IN_GH_SHORT_BLOB == <<"g","i","t","h","u","b",":","o","/","n","/","b","l","o","b","/","m","/","a",".","p","y">>

\* the command-line argument "http://github.com/o/n"
IN_GH_HTTP == <<"h","t","t","p",":","/","/","g","i","t","h","u","b",".","c","o","m","/","o","/","n">>

\* the command-line argument "pypi:p"
IN_PYPI == <<"p","y","p","i",":","p">>

\* the command-line argument "pip: p"
IN_PIP == <<"p","i","p",":"," ","p">>

\* the command-line argument "npm:p"
IN_NPM == <<"n","p","m",":","p">>

\* the command-line argument "https://x.io/a.py"
IN_URL == <<"h","t","t","p","s",":","/","/","x",".","i","o","/","a",".","p","y">>

\* the command-line argument "http://x.io/b.js"
IN_URL_HTTP == <<"h","t","t","p",":","/","/","x",".","i","o","/","b",".","j","s">>

\* the command-line argument "https://x.io/"
IN_URL_DIR == <<"h","t","t","p","s",":","/","/","x",".","i","o","/">>

\* the command-line argument "https://x.io/blob/a.py"
IN_URL_BLOB == <<"h","t","t","p","s",":","/","/","x",".","i","o","/","b","l","o","b","/","a",".","p","y">>

\* the command-line argument "/d/o"
IN_LOCAL == <<"/","d","/","o">>

\* the command-line argument "/d/repo_scan_o"
IN_LOCAL_SCAN == <<"/","d","/","r","e","p","o","_","s","c","a","n","_","o">>

\* the command-line argument "o"
IN_LOCAL_REL == <<"o">>

\* the command-line argument "ftp:o"
IN_UNKNOWN == <<"f","t","p",":","o">>
\* the names _run_pip_audit gives its synthetic conflict finding
REQUIREMENTS == <<"r", "e", "q", "u", "i", "r", "e", "m", "e", "n", "t", "s">>
N_A == <<"N", "/", "A">>

\* a dependency of a package.json
LODASH == <<"l", "o", "d", "a", "s", "h">>
LODASH_VERSION == <<"4", ".", "1", "7", ".", "0">>

\* lines of a requirements.txt
REQ_PIN == <<"r", "e", "q", "u", "e", "s", "t", "s", "=", "=", "2", ".", "1", "0", ".", "0">>
REQ_LOWER == <<"f", "l", "a", "s", "k", ">", "=", "1", ".", "0">>
REQ_BARE == <<"s", "i", "x">>
REQ_COMMENT == <<"#", " ", "p", "i", "n", "s">>
REQ_MARKER == <<"a", "t", "t", "r", "s", "=", "=", "2", "1", ".", "1", ";", " ", "o", "s", "_", "n", "a", "m", "e", "=", "=", "'", "n", "t", "'">>

----------------------------------------------------------------------------
(* Bounds                                                                  *)

\* largest number of issues one external tool run reports
MaxIssues == 1

\* largest number of lines of a requirements.txt
MaxReqLines == 2

----------------------------------------------------------------------------
(* Python string operations                                                *)

\* str.startswith
StartsWith(s, p) ==
  Len(s) >= Len(p) /\ SubSeq(s, 1, Len(p)) = p

\* the operator `in` on strings
Contains(s, p) ==
  \E i \in 1..(Len(s) + 1) :
     i + Len(p) - 1 <= Len(s) /\ SubSeq(s, i, i + Len(p) - 1) = p

\* str.replace(old, new): every non-overlapping occurrence, left to right
RECURSIVE Replace(_, _, _)
Replace(s, old, new) ==
  IF Len(s) < Len(old) THEN s
  ELSE IF SubSeq(s, 1, Len(old)) = old
       THEN new \o Replace(SubSeq(s, Len(old) + 1, Len(s)), old, new)
       ELSE <<s[1]>> \o Replace(Tail(s), old, new)

\* s.split(sep, 1)[1]: what follows the first occurrence of sep
RECURSIVE AfterFirst(_, _)
AfterFirst(s, sep) ==
  IF Len(s) < Len(sep) THEN <<>>
  ELSE IF SubSeq(s, 1, Len(sep)) = sep
       THEN SubSeq(s, Len(sep) + 1, Len(s))
       ELSE AfterFirst(Tail(s), sep)

\* str.strip(chars) for a set of characters
RECURSIVE LStrip(_, _)
LStrip(s, cs) ==
  IF s # <<>> /\ s[1] \in cs THEN LStrip(Tail(s), cs) ELSE s

RECURSIVE RStrip(_, _)
RStrip(s, cs) ==
  IF s # <<>> /\ s[Len(s)] \in cs THEN RStrip(SubSeq(s, 1, Len(s) - 1), cs) ELSE s

Strip(s, cs) == RStrip(LStrip(s, cs), cs)

\* os.path.basename: what follows the last "/"
RECURSIVE basename(_)
basename(p) ==
  IF Contains(p, <<"/">>) THEN basename(AfterFirst(p, <<"/">>)) ELSE p

\* os.path.join of two components
Join(a, b) == a \o <<"/">> \o b

----------------------------------------------------------------------------
(* Filesystem                                                              *)

\* q is p or lies below p
Under(q, p) == q = p \/ StartsWith(q, p \o <<"/">>)

isdir(fsys, p) == p \in fsys.dirs

isfile(fsys, p) == p \in fsys.files

\* tempfile.mkdtemp(prefix=...): the path of the fresh directory
mkdtemp(prefix) == TMPDIR \o <<"/">> \o prefix \o TMP_SUFFIX

\* os.makedirs / the directory creation of mkdtemp
makedirs(fsys, p) == [fsys EXCEPT !.dirs = @ \cup {p}]

\* writing a regular file
writefile(fsys, p) == [fsys EXCEPT !.files = @ \cup {p}]

\* shutil.rmtree: the directory and everything below it
rmtree(fsys, p) ==
  [dirs  |-> {d \in fsys.dirs  : ~Under(d, p)},
   files |-> {f \in fsys.files : ~Under(f, p)}]

\* the files an extraction or a clone puts below root
AddTree(fsys, root, tree) ==
  [dirs  |-> fsys.dirs \cup {root},
   files |-> fsys.files \cup {Join(root, n) : n \in tree}]

\* os.walk: every regular file below root
WalkFiles(fsys, root) == {f \in fsys.files : StartsWith(f, root \o <<"/">>)}

----------------------------------------------------------------------------
(* Detection functions                                                     *)

\* is_github_file_url without the test for the /blob/ segment
is_github_file_url_no_blob_test(repo_input) ==
  StartsWith(repo_input, GITHUB_URL_PREFIX)

is_github_file_url(repo_input) ==
  IF StartsWith(repo_input, GITHUB_URL_PREFIX)
  THEN Contains(repo_input, BLOB_SEGMENT)
  ELSE FALSE

is_github_repo_url(repo_input) ==
  IF StartsWith(repo_input, GITHUB_URL_PREFIX) /\ ~Contains(repo_input, BLOB_SEGMENT)
  THEN TRUE
  ELSE IF StartsWith(repo_input, GITHUB_SHORT_PREFIX) THEN TRUE
  ELSE FALSE

is_pypi_input(repo_input) ==
  StartsWith(repo_input, PYPI_PREFIX) \/ StartsWith(repo_input, PIP_PREFIX)

is_npm_input(repo_input) == StartsWith(repo_input, NPM_PREFIX)

is_remote_file(repo_input) ==
  IF StartsWith(repo_input, HTTP_PREFIX) \/ StartsWith(repo_input, HTTPS_PREFIX)
  THEN ~StartsWith(repo_input, GITHUB_URL_PREFIX)
  ELSE FALSE

\* fetch_code_source with the local-path test made first
fetch_code_source_local_first(repo_input, fsys) ==
  IF isfile(fsys, repo_input) \/ isdir(fsys, repo_input) THEN "local"
  ELSE IF is_github_file_url(repo_input) THEN "fetch_github_file"
  ELSE IF is_github_repo_url(repo_input) THEN "fetch_github_repo"
  ELSE IF is_pypi_input(repo_input) THEN "fetch_pypi_package"
  ELSE IF is_npm_input(repo_input) THEN "fetch_npm_package"
  ELSE IF is_remote_file(repo_input) THEN "fetch_remote_file"
  ELSE "exit"

\* fetch_code_source returning the input without the existence test
fetch_code_source_assume_local(repo_input, fsys) ==
  IF is_github_file_url(repo_input) THEN "fetch_github_file"
  ELSE IF is_github_repo_url(repo_input) THEN "fetch_github_repo"
  ELSE IF is_pypi_input(repo_input) THEN "fetch_pypi_package"
  ELSE IF is_npm_input(repo_input) THEN "fetch_npm_package"
  ELSE IF is_remote_file(repo_input) THEN "fetch_remote_file"
  ELSE "local"

\* the branch fetch_code_source takes: the first test that holds
fetch_code_source(repo_input, fsys) ==
  IF is_github_file_url(repo_input) THEN "fetch_github_file"
  ELSE IF is_github_repo_url(repo_input) THEN "fetch_github_repo"
  ELSE IF is_pypi_input(repo_input) THEN "fetch_pypi_package"
  ELSE IF is_npm_input(repo_input) THEN "fetch_npm_package"
  ELSE IF is_remote_file(repo_input) THEN "fetch_remote_file"
  ELSE IF isfile(fsys, repo_input) \/ isdir(fsys, repo_input) THEN "local"
  ELSE "exit"

----------------------------------------------------------------------------
(* Fetch functions.  Each returns a record:                                *)
(*   fs      the filesystem when the function is left                      *)
(*   status  "return" (a path is returned), "exit" (sys.exit(1)) or        *)
(*           "raise" (an exception leaves the function uncaught)           *)
(*   ret     the returned path (<<>> unless status = "return")             *)
(*   tmp     the directory mkdtemp created (<<>> when none was created)    *)
(*   mk, rm  the number of mkdtemp calls and of rmtree(tmp_dir) calls      *)
(*   target  the URL or package name handed to the external tool           *)
(*   via     the step of the function that produced the result             *)

NoPath == <<>>

FetchResult(fsys, status, ret, tmp, mk, rm, target, via) ==
  [fs |-> fsys, status |-> status, ret |-> ret, tmp |-> tmp,
   mk |-> mk, rm |-> rm, target |-> target, via |-> via, tried |-> <<>>]

\* outcomes of "git clone --depth 1": exit 0, exit non-zero, git not found
CloneOutcomes == {"ok", "nonzero", "notool"}

\* fetch_github_repo without the rmtree of its except clause
fetch_github_repo_no_rmtree(repo_input, fsys, out, tree) ==
  LET repo_url == IF StartsWith(repo_input, GITHUB_SHORT_PREFIX)
                  THEN GITHUB_URL_PREFIX
                         \o Strip(AfterFirst(repo_input, GITHUB_SHORT_PREFIX), {"/"})
                  ELSE repo_input
      tmp_dir  == mkdtemp(PREFIX_CLONE)
      fs1      == makedirs(fsys, tmp_dir)
  IN  CASE out = "ok" ->
             FetchResult(AddTree(fs1, tmp_dir, tree), "return", tmp_dir,
                         tmp_dir, 1, 0, repo_url, "clone")
        [] out = "nonzero" ->
             FetchResult(fs1, "exit", NoPath, tmp_dir, 1, 0, repo_url, "clone_nonzero")
        [] OTHER ->
             FetchResult(fs1, "raise", NoPath, tmp_dir, 1, 0, repo_url, "git_missing")

fetch_github_repo(repo_input, fsys, out, tree) ==
  LET repo_url == IF StartsWith(repo_input, GITHUB_SHORT_PREFIX)
                  THEN GITHUB_URL_PREFIX
                         \o Strip(AfterFirst(repo_input, GITHUB_SHORT_PREFIX), {"/"})
                  ELSE repo_input
      tmp_dir  == mkdtemp(PREFIX_CLONE)
      fs1      == makedirs(fsys, tmp_dir)
  IN  CASE out = "ok" ->
             FetchResult(AddTree(fs1, tmp_dir, tree), "return", tmp_dir,
                         tmp_dir, 1, 0, repo_url, "clone")
        [] out = "nonzero" ->
             \* except subprocess.CalledProcessError: rmtree, sys.exit(1)
             FetchResult(rmtree(fs1, tmp_dir), "exit", NoPath,
                         tmp_dir, 1, 1, repo_url, "clone_nonzero")
        [] OTHER ->
             \* FileNotFoundError is not a CalledProcessError: it propagates
             FetchResult(fs1, "raise", NoPath, tmp_dir, 1, 0, repo_url, "git_missing")

\* outcomes of requests.get + the write of the body:
\* 2xx and written, RequestException (network error, timeout, non-2xx),
\* OSError while opening or writing local_path
RemoteOutcomes == {"ok", "request_error", "write_error"}

fetch_remote_file(file_url, fsys, out) ==
  LET tmp_dir    == mkdtemp(PREFIX_FILE)
      filename   == basename(file_url)
      local_path == Join(tmp_dir, filename)
      fs1        == makedirs(fsys, tmp_dir)
  IN  CASE out = "request_error" ->
             FetchResult(rmtree(fs1, tmp_dir), "exit", NoPath,
                         tmp_dir, 1, 1, file_url, "request_error")
        [] out = "ok" /\ filename # <<>> ->
             FetchResult(writefile(fs1, local_path), "return", local_path,
                         tmp_dir, 1, 0, file_url, "download")
        [] OTHER ->
             \* open(local_path, 'wb') or f.write raises OSError (always so when
             \* the basename is empty: local_path is then the directory itself);
             \* only RequestException is caught
             FetchResult(fs1, "raise", NoPath, tmp_dir, 1, 0, file_url, "write_error")

fetch_github_file(file_url, fsys, out) ==
  LET raw_url == Replace(Replace(file_url, GITHUB_HOST, RAW_HOST), BLOB_SEGMENT, <<"/">>)
  IN  fetch_remote_file(raw_url, fsys, out)

\* is_npm_installed(): "npm --version" ran and exited 0
is_npm_installed(npm_present) == npm_present

\* outcomes of "npm pack" and of the extraction that follows
NpmOutcomes == {"ok", "pack_failed", "no_tarball", "extract_error", "no_package_dir"}

\* fetch_npm_package creating its directories before the npm test
fetch_npm_package_mkdtemp_first(package_name, fsys, npm_present, out, tree) ==
  LET tmp_dir      == mkdtemp(PREFIX_NPM)
      extract_dir  == Join(tmp_dir, EXTRACTED)
      fs1          == makedirs(makedirs(fsys, tmp_dir), extract_dir)
      tarball_path == Join(tmp_dir, TARBALL_NAME)
      package_dir  == Join(extract_dir, PACKAGE)
  IN  IF ~is_npm_installed(npm_present)
      THEN FetchResult(fs1, "exit", NoPath, tmp_dir, 1, 0, package_name, "npm_missing")
      ELSE IF out = "ok"
      THEN FetchResult(AddTree(writefile(fs1, tarball_path), package_dir, tree),
                       "return", package_dir, tmp_dir, 1, 0, package_name, "pack")
      ELSE FetchResult(rmtree(fs1, tmp_dir), "exit", NoPath,
                       tmp_dir, 1, 1, package_name, out)

fetch_npm_package(package_name, fsys, npm_present, out, tree) ==
  IF ~is_npm_installed(npm_present)
  THEN FetchResult(fsys, "exit", NoPath, NoPath, 0, 0, package_name, "npm_missing")
  ELSE
    LET tmp_dir      == mkdtemp(PREFIX_NPM)
        extract_dir  == Join(tmp_dir, EXTRACTED)
        fs1          == makedirs(makedirs(fsys, tmp_dir), extract_dir)
        tarball_path == Join(tmp_dir, TARBALL_NAME)
        package_dir  == Join(extract_dir, PACKAGE)
    IN  IF out = "ok"
        THEN FetchResult(AddTree(writefile(fs1, tarball_path), package_dir, tree),
                         "return", package_dir, tmp_dir, 1, 0, package_name, "pack")
        ELSE \* both except clauses: rmtree(tmp_dir), sys.exit(1)
             FetchResult(rmtree(fs1, tmp_dir), "exit", NoPath,
                         tmp_dir, 1, 1, package_name, out)

\* get_package_dir: the first sub-directory of extract_dir, else extract_dir
get_package_dir(fsys, extract_dir) ==
  LET subdirs == {d \in fsys.dirs : \E n \in {PKG_TOPDIR} : d = Join(extract_dir, n)}
  IN  IF subdirs # {} THEN CHOOSE d \in subdirs : TRUE ELSE extract_dir

\* extract_archive into extract_dir; nested: the archive has one top-level directory
ExtractInto(fsys, extract_dir, nested, tree) ==
  IF nested THEN AddTree(fsys, Join(extract_dir, PKG_TOPDIR), tree)
  ELSE AddTree(fsys, extract_dir, tree)

\* strategy 1: metadata query and sdist download; no_response: the server
\* accepts the request and never answers (requests.get has no timeout here)
Strategy1Outcomes ==
  {"ok", "api_error", "no_sdist", "download_error", "extract_error", "no_response"}
\* strategies 2 and 3: pip download
PipOutcomes == {"ok", "pip_failed", "no_archive", "extract_error"}

\* the strategies fetch_pypi_package starts, in the order it starts them:
\* outs[k] is what happens to strategy k, oks[k] whether it reaches its return
pypi_attempts_no_fallback(outs, oks) ==
  LET A(k) == [strategy |-> k, outcome |-> outs[k], returned |-> oks[k]]
  IN  IF oks[1] THEN <<A(1)>> ELSE <<A(1), A(2)>>

pypi_attempts(outs, oks) ==
  LET A(k) == [strategy |-> k, outcome |-> outs[k], returned |-> oks[k]]
  IN  IF oks[1] \/ outs[1] = "no_response" THEN <<A(1)>>
      ELSE IF oks[2] THEN <<A(1), A(2)>>
      ELSE <<A(1), A(2), A(3)>>

fetch_pypi_package(package_name, fsys, s1, s2, s3, nested, tree) ==
  LET tmp_dir     == mkdtemp(PREFIX_PYPI)
      extract_dir == Join(tmp_dir, EXTRACTED)
      fs0         == makedirs(makedirs(fsys, tmp_dir), extract_dir)
      sdist       == Join(tmp_dir, SDIST_NAME)
      wheel       == Join(tmp_dir, WHEEL_NAME)
      \* strategy 1 leaves the archive behind once the download has started
      fs1         == IF s1 \in {"ok", "download_error", "extract_error"}
                     THEN writefile(fs0, sdist) ELSE fs0
      \* strategy 2 ran pip: "ok" and "extract_error" wrote an sdist
      fs2         == IF s2 \in {"ok", "extract_error"} THEN writefile(fs1, sdist) ELSE fs1
      archives2   == {f \in fs2.files : f = sdist}
      fs3         == IF s3 \in {"ok", "extract_error"} THEN writefile(fs2, wheel) ELSE fs2
      archives3   == {f \in fs3.files : f \in {sdist, wheel}}
      ok1         == s1 = "ok"
      ok2         == s2 \in {"ok", "no_archive"} /\ archives2 # {}
      ok3         == s3 \in {"ok", "no_archive"} /\ archives3 # {}
      tried       == pypi_attempts(<<s1, s2, s3>>, <<ok1, ok2, ok3>>)
      last        == tried[Len(tried)]
      fsk         == <<fs1, fs2, fs3>>[last.strategy]
      via         == <<"strategy1", "strategy2", "strategy3">>[last.strategy]
      fx          == ExtractInto(fsk, extract_dir, nested, tree)
  IN  IF last.returned
      THEN [FetchResult(fx, "return", get_package_dir(fx, extract_dir),
                        tmp_dir, 1, 0, package_name, via)
              EXCEPT !.tried = tried]
      ELSE IF last.outcome = "no_response"
      THEN \* requests.get(pypi_url) never returns
           [FetchResult(fs0, "blocked", NoPath, tmp_dir, 1, 0, package_name, "no_response")
              EXCEPT !.tried = tried]
      ELSE \* the outer except clause: rmtree(tmp_dir), sys.exit(1)
           [FetchResult(rmtree(fsk, tmp_dir), "exit", NoPath,
                        tmp_dir, 1, 1, package_name, "all_failed")
              EXCEPT !.tried = tried]

----------------------------------------------------------------------------
(* Plugins.  A scan returns a record:                                      *)
(*   status   "return" or "raise" (an exception leaves scan)               *)
(*   payload  the returned value: type "None", or type "dict" with         *)
(*            keys     the top-level keys of the dict                      *)
(*            hits     <<file, category>> pairs (pattern payload)          *)
(*            issues   the tool's issue list                               *)
(*            manifest the package names (dependency payload)              *)
(*            vulns    the dependency_issues list                          *)
(*   failure  the way the scan failed: "none", "raised", "tool_missing",   *)
(*            "bad_exit" or "malformed"                                    *)
(*   runs     the runs of external tools the scan made, in order           *)

Payload(keys, hits, issues, manifest, vulns) ==
  [type |-> "dict", keys |-> keys, hits |-> hits, issues |-> issues,
   manifest |-> manifest, vulns |-> vulns]

EmptyDict == Payload({}, {}, <<>>, <<>>, <<>>)

NonePayload == [type |-> "None", keys |-> {}, hits |-> {}, issues |-> <<>>,
                manifest |-> <<>>, vulns |-> <<>>]

ScanResult(status, payload, failure) ==
  [status |-> status, payload |-> payload, failure |-> failure]

\* one subprocess.run of a lint or audit command: the tool, its target,
\* the exit code (-1: the process could not be started), whether stdout was
\* JSON, the number of issues in that JSON, the requirement lines handed
\* to an audit tool, and whether stderr held ResolutionImpossible
Run(tool, target, rc, json, reported, input) ==
  [tool |-> tool, target |-> target, rc |-> rc, json |-> json,
   reported |-> reported, input |-> input, conflict |-> FALSE]

\* a scan result together with the runs the scan made; reads is what
\* opening and matching each collected file gave (pattern plugin only)
Logged(r, runs) ==
  [status |-> r.status, payload |-> r.payload, failure |-> r.failure, runs |-> runs,
   reads |-> <<>>]

\* the file list collected by RegexPlugin.scan and ESLintPlugin.scan
file_list(fsys, target_path) ==
  IF isdir(fsys, target_path) THEN WalkFiles(fsys, target_path)
  ELSE IF isfile(fsys, target_path) THEN {target_path}
  ELSE {}

\* what reading and matching one file gives: no pattern matches, one
\* pattern matches, two patterns match, open() or read() raises
ReadOutcomes == {"clean", "match", "match_two", "unreadable"}

\* the pattern names recorded for a file
categories(outcome) ==
  CASE outcome = "match" -> {"eval_call"}
    [] outcome = "match_two" -> {"eval_call", "exec_call"}
    [] outcome = "unreadable" -> {"error_reading"}
    [] OTHER -> {}

\* a scan whose loop ends at the first file that cannot be read: the
\* entries of the unreadable files are all it returns
RegexPlugin_scan_stops_at_error(fsys, target_path, read) ==
  LET files == file_list(fsys, target_path)
      bad   == {f \in files : read[f] = "unreadable"}
      seen  == IF bad = {} THEN files ELSE bad
      hits  == UNION {{<<f, c>> : c \in categories(read[f])} : f \in seen}
  IN  [Logged(ScanResult("return",
                         Payload({h[1] : h \in hits}, hits, <<>>, <<>>, <<>>),
                         "none"),
              <<>>)
         EXCEPT !.reads = read]

\* read: file -> ReadOutcomes
RegexPlugin_scan(fsys, target_path, read) ==
  LET files == file_list(fsys, target_path)
      hits  == UNION {{<<f, c>> : c \in categories(read[f])} : f \in files}
  IN  [Logged(ScanResult("return",
                         Payload({h[1] : h \in hits}, hits, <<>>, <<>>, <<>>),
                         "none"),
              <<>>)
         EXCEPT !.reads = read]

\* outcomes of one run of an external lint tool
ToolOutcomes == {"ok", "tool_missing", "bad_exit", "malformed"}

\* the exit code of a lint tool: 0 = no issues found, 1 = issues found,
\* other is error; -1 stands for a process that could not be started
ReturnCode(out, n) ==
  CASE out = "tool_missing" -> -1
    [] out = "bad_exit" -> 2
    [] out = "ok" /\ n > 0 -> 1
    [] OTHER -> 0

\* the test of the exit code taking 0 alone for success
returncode_ok_zero_only(rc) == rc = 0

\* result.returncode not in (0,1), negated
returncode_ok(rc) == rc \in {0, 1}

\* n issues of one severity as the tool reports them
IssueList(n, sev) == [i \in 1..n |-> [severity |-> sev]]

BanditPlugin_scan(target_path, out, n) ==
  LET rc  == ReturnCode(out, n)
      run == Run("bandit", target_path, rc, out = "ok", n, <<>>)
  IN  IF out = "tool_missing"
      THEN \* FileNotFoundError, caught by except Exception
           Logged(ScanResult("return", EmptyDict, out), <<run>>)
      ELSE IF ~returncode_ok(rc)
      THEN Logged(ScanResult("return", EmptyDict, "bad_exit"), <<run>>)
      ELSE IF out = "malformed"
      THEN \* json.loads raises, caught by except Exception
           Logged(ScanResult("return", EmptyDict, out), <<run>>)
      ELSE IF n > 0
      THEN Logged(ScanResult("return",
                             Payload({"bandit_issues"}, {}, IssueList(n, "HIGH"), <<>>, <<>>),
                             "none"),
                  <<run>>)
      ELSE Logged(ScanResult("return", EmptyDict, "none"), <<run>>)

\* the severity code of an ESLint message: 2 is an error, anything else a warning
eslint_severity(code) == IF code = 2 THEN "error" ELSE "warning"

\* first: the file the loop over file_list visits first; code: the severity
\* code of the messages ESLint reports for it
ESLintPlugin_scan(fsys, target_path, installed, first, out, n, code) ==
  IF ~installed THEN Logged(ScanResult("return", EmptyDict, "tool_missing"), <<>>)
  ELSE IF ~isdir(fsys, target_path) /\ ~isfile(fsys, target_path)
       THEN Logged(ScanResult("return", EmptyDict, "none"), <<>>)
  ELSE IF file_list(fsys, target_path) = {}
       THEN \* the for loop has nothing to iterate: the method ends without a return
            Logged(ScanResult("return", NonePayload, "none"), <<>>)
  ELSE \* the body of the loop returns in its first iteration
       LET rc  == ReturnCode(out, n)
           run == Run("eslint", first, rc, out = "ok", n, <<>>)
       IN  IF out = "tool_missing"
           THEN Logged(ScanResult("return", EmptyDict, out), <<run>>)
           ELSE IF ~returncode_ok(rc)
           THEN Logged(ScanResult("return", EmptyDict, "bad_exit"), <<run>>)
           ELSE IF out = "malformed"
           THEN Logged(ScanResult("return", EmptyDict, out), <<run>>)
           ELSE IF n > 0
           THEN Logged(ScanResult("return",
                                  Payload({"eslint_issues"}, {},
                                          IssueList(n, eslint_severity(code)), <<>>, <<>>),
                                  "none"),
                       <<run>>)
           ELSE Logged(ScanResult("return", EmptyDict, "none"), <<run>>)

\* the characters str.strip() removes
WHITESPACE == {" ", "\t", "\r", "\n"}

EQEQ == <<"=", "=">>
GTEQ == <<">", "=">>

\* str.split(sep): the pieces between the non-overlapping occurrences of sep
RECURSIVE Split(_, _)
Split(s, sep) ==
  IF ~Contains(s, sep) THEN <<s>>
  ELSE LET i == CHOOSE k \in 1..Len(s) :
                   /\ k + Len(sep) - 1 <= Len(s)
                   /\ SubSeq(s, k, k + Len(sep) - 1) = sep
                   /\ \A j \in 1..(k - 1) : SubSeq(s, j, j + Len(sep) - 1) # sep
       IN  <<SubSeq(s, 1, i - 1)>> \o Split(SubSeq(s, i + Len(sep), Len(s)), sep)

\* one line of parse_requirements_txt: the pairs it appends, or the
\* ValueError of unpacking a split into other than two pieces
parse_requirement_line(raw) ==
  LET line == Strip(raw, WHITESPACE)
  IN  IF line = <<>> \/ StartsWith(line, <<"#">>)
      THEN [status |-> "return", deps |-> <<>>]
      ELSE IF Contains(line, EQEQ)
      THEN LET parts == Split(line, EQEQ)
           IN  IF Len(parts) # 2 THEN [status |-> "raise", deps |-> <<>>]
               ELSE [status |-> "return",
                     deps |-> <<<<Strip(parts[1], WHITESPACE), Strip(parts[2], WHITESPACE)>>>>]
      ELSE IF Contains(line, GTEQ)
      THEN LET parts == Split(line, GTEQ)
           IN  IF Len(parts) # 2 THEN [status |-> "raise", deps |-> <<>>]
               ELSE [status |-> "return",
                     deps |-> <<<<Strip(parts[1], WHITESPACE),
                                  GTEQ \o Strip(parts[2], WHITESPACE)>>>>]
      ELSE [status |-> "return", deps |-> <<<<line, <<>>>>>>]

\* lines: the lines of the file; [status, deps]
parse_requirements_txt(lines) ==
  LET Go[k \in 0..Len(lines)] ==
        IF k = 0 THEN [status |-> "return", deps |-> <<>>]
        ELSE LET one == parse_requirement_line(lines[k])
             IN  IF Go[k - 1].status = "raise" \/ one.status = "raise"
                 THEN [status |-> "raise", deps |-> <<>>]
                 ELSE [status |-> "return", deps |-> Go[k - 1].deps \o one.deps]
  IN  Go[Len(lines)]

\* the line _run_pip_audit writes into its temporary requirements file
render_requirement(pkg, ver) ==
  IF ver # <<>> THEN pkg \o EQEQ \o ver ELSE pkg

\* the temporary requirements file of _run_pip_audit
pip_audit_manifest(deps) ==
  [i \in 1..Len(deps) |-> render_requirement(deps[i][1], deps[i][2])]

\* outcomes of one run of pip-audit / npm audit:
\*   ok          JSON of the expected shape,
\*   tool_missing the executable is not found (FileNotFoundError),
\*   malformed   stdout is not JSON,
\*   conflict    stdout is not JSON and stderr holds ResolutionImpossible,
\*   json_conflict stdout is JSON of the expected shape and stderr holds
\*               ResolutionImpossible,
\*   not_object  stdout is JSON but not an object (AttributeError on .get),
\*   install_failed "npm install" exits non-zero (CalledProcessError)
PipAuditOutcomes ==
  {"ok", "tool_missing", "malformed", "conflict", "json_conflict", "not_object"}
NpmAuditOutcomes == {"ok", "tool_missing", "malformed", "install_failed", "not_object"}

Vuln(pkg, ver, sev) == [package |-> pkg, version |-> ver, severity |-> sev]

\* returns [status, findings, runs]
run_pip_audit(deps, out, n) ==
  IF deps = <<>> THEN [status |-> "return", findings |-> <<>>, runs |-> <<>>]
  ELSE LET run == [Run("pip-audit", <<>>, IF out = "tool_missing" THEN -1 ELSE 0,
                          out \in {"ok", "json_conflict", "not_object"}, n,
                          pip_audit_manifest(deps))
                     EXCEPT !.conflict = out \in {"conflict", "json_conflict"}]
       IN  CASE out \in {"ok", "json_conflict"} ->
                  \* stderr is read in the JSONDecodeError clause only
                  [status |-> "return",
                   findings |-> [i \in 1..n |-> Vuln(deps[1][1], deps[1][2], "high")],
                   runs |-> <<run>>]
             [] out = "malformed" ->
                  [status |-> "return", findings |-> <<>>, runs |-> <<run>>]
             [] out = "conflict" ->
                  [status |-> "return",
                   findings |-> <<Vuln(REQUIREMENTS, N_A, "medium")>>,
                   runs |-> <<run>>]
             [] OTHER ->
                  \* only CalledProcessError is caught around subprocess.run
                  [status |-> "raise", findings |-> <<>>, runs |-> <<run>>]

run_npm_audit(deps, out, n) ==
  IF deps = <<>> THEN [status |-> "return", findings |-> <<>>, runs |-> <<>>]
  ELSE LET run == Run("npm audit", <<>>, IF out = "tool_missing" THEN -1 ELSE 0,
                      out \in {"ok", "not_object"}, n, <<>>)
       IN  CASE out = "ok" ->
                  [status |-> "return",
                   findings |-> [i \in 1..n |-> Vuln(deps[1][1], deps[1][2], "high")],
                   runs |-> <<run>>]
             [] out \in {"malformed", "install_failed"} ->
                  [status |-> "return", findings |-> <<>>, runs |-> <<run>>]
             [] OTHER -> [status |-> "raise", findings |-> <<>>, runs |-> <<run>>]

\* the dependencies parse_package_json reads from a package.json
NodeDeps == <<<<LODASH, LODASH_VERSION>>>>

\* the project.dependencies of the pyproject.toml of the trees:
\* "click" and "flask >=1.0"
PYPROJECT_DEPENDENCIES == <<<<"c","l","i","c","k">>, <<"f","l","a","s","k"," ",">","=","1",".","0">>>>

\* DependencyPlugin.parse_pyproject_toml on the project.dependencies it
\* loads: (name, constraint) at the first space, (name, "") without one
parse_pyproject_toml(project_deps) ==
  [i \in 1..Len(project_deps) |->
     LET dep == project_deps[i]
     IN  IF Contains(dep, <<" ">>)
         THEN <<Strip(Head(Split(dep, <<" ">>)), WHITESPACE),
                Strip(AfterFirst(dep, <<" ">>), WHITESPACE)>>
         ELSE <<Strip(dep, WHITESPACE), <<>>>>]

\* the names bound at module level of dependency_plugin.py (the imports of
\* lines 1-10 and the class): the parsers are methods, not among them
ModuleNames ==
  {"os", "json", "tomli", "logger", "re", "subprocess", "tempfile", "Path",
   "Dict", "List", "Tuple", "Any", "BasePlugin", "DependencyPlugin"}

\* line 217: parse_pyproject_toml(str(pyproject)), a call of the bare name;
\* an unbound name raises NameError
call_parse_pyproject_toml(project_deps) ==
  IF "parse_pyproject_toml" \in ModuleNames
  THEN [status |-> "return", deps |-> parse_pyproject_toml(project_deps)]
  ELSE [status |-> "raise", deps |-> <<>>]

\* the dependencies identify_repo_dependencies finds below repo_path:
\* requirements.txt (its lines are req), pyproject.toml and package.json are
\* parsed in this order, and a file whose parsing raises is skipped by the
\* except clause of its loop
identify_repo_dependencies(fsys, repo_path, req) ==
  [python |-> (IF \E f \in WalkFiles(fsys, repo_path) : basename(f) = REQUIREMENTS_TXT
               THEN LET parsed == parse_requirements_txt(req)
                    IN  IF parsed.status = "return" THEN parsed.deps ELSE <<>>
               ELSE <<>>)
              \o
              (IF \E f \in WalkFiles(fsys, repo_path) : basename(f) = PYPROJECT_TOML
               THEN LET parsed == call_parse_pyproject_toml(PYPROJECT_DEPENDENCIES)
                    IN  IF parsed.status = "return" THEN parsed.deps ELSE <<>>
               ELSE <<>>),
   node   |-> IF \E f \in WalkFiles(fsys, repo_path) : basename(f) = PACKAGE_JSON
              THEN NodeDeps ELSE <<>>]

\* list(dict.fromkeys(names)): the first occurrence of each name
unique(names) ==
  LET Keep[k \in 0..Len(names)] ==
        IF k = 0 THEN <<>>
        ELSE IF \E j \in 1..(k - 1) : names[j] = names[k] THEN Keep[k - 1]
        ELSE Append(Keep[k - 1], names[k])
  IN  Keep[Len(names)]

\* a manifest taking the second component of each dependency pair
build_manifest_versions(deps) ==
  LET all   == deps.python \o deps.node
      names == [i \in 1..Len(all) |-> all[i][2]]
  IN  [i \in 1..Len(unique(names)) |-> <<unique(names)[i]>>]

\* the manifest of scan: the unique package names of all dependency lists.
\* An entry is the tuple of its components: the code keeps the name alone
build_manifest(deps) ==
  LET all   == deps.python \o deps.node
      names == [i \in 1..Len(all) |-> all[i][1]]
  IN  [i \in 1..Len(unique(names)) |-> <<unique(names)[i]>>]

DependencyPlugin_scan(fsys, target_path, req, pout, pn, nout, nn) ==
  LET deps  == identify_repo_dependencies(fsys, target_path, req)
      py    == run_pip_audit(deps.python, pout, pn)
      node  == run_npm_audit(deps.node, nout, nn)
  IN  IF py.status = "raise"
      THEN Logged(ScanResult("raise", NonePayload,
                             IF pout = "tool_missing" THEN pout ELSE "malformed"),
                  py.runs)
      ELSE IF node.status = "raise"
      THEN Logged(ScanResult("raise", NonePayload,
                             IF nout = "tool_missing" THEN nout ELSE "malformed"),
                  py.runs \o node.runs)
      ELSE Logged(ScanResult("return",
                      Payload({"dependency_findings", "dependency_manifest"}, {}, <<>>,
                              build_manifest(deps),
                              py.findings \o node.findings),
                      IF (deps.python # <<>> /\ pout \in {"malformed", "conflict"})
                         \/ (deps.node # <<>> /\ nout = "malformed")
                      THEN "malformed"
                      ELSE IF deps.node # <<>> /\ nout = "install_failed" THEN "bad_exit"
                      ELSE "none"),
                  py.runs \o node.runs)

\* the plugins list of main(), in registration order
plugins == <<"RegexPlugin", "BanditPlugin", "ESLintPlugin", "DependencyPlugin">>

----------------------------------------------------------------------------
(* Report generation                                                       *)

\* the issue count of the quick pass for one plugin
issue_count(plugin_name, plugin_data) ==
  CASE plugin_name = "RegexPlugin" -> Cardinality(plugin_data.keys)
    [] plugin_name \in {"BanditPlugin", "ESLintPlugin"} -> Len(plugin_data.issues)
    [] OTHER -> Len(plugin_data.vulns)

\* the section of the detailed pass carries a "no issues" line: the generic
\* one for an empty dict, else the one of the plugin's own branch
section_marker_generic_only(plugin_name, plugin_data) ==
  plugin_data.keys = {}

section_marker(plugin_name, plugin_data) ==
  IF plugin_data.keys = {} THEN TRUE
  ELSE CASE plugin_name = "RegexPlugin" -> FALSE
         [] plugin_name \in {"BanditPlugin", "ESLintPlugin"} -> plugin_data.issues = <<>>
         [] plugin_name = "DependencyPlugin" -> plugin_data.vulns = <<>>
         [] OTHER -> FALSE

\* the severity printed with each finding line of a section: none for a
\* pattern line, issue_severity / severity as the payload holds it for the
\* tools, the vulnerability's severity for the dependency section
section_severities(plugin_name, plugin_data) ==
  IF plugin_data.keys = {} THEN <<>>
  ELSE CASE plugin_name = "RegexPlugin" ->
              [i \in 1..Cardinality(plugin_data.hits) |-> "absent"]
         [] plugin_name \in {"BanditPlugin", "ESLintPlugin"} ->
              [i \in 1..Len(plugin_data.issues) |-> plugin_data.issues[i].severity]
         [] plugin_name = "DependencyPlugin" ->
              [i \in 1..Len(plugin_data.vulns) |-> plugin_data.vulns[i].severity]
         [] OTHER -> <<>>

\* one section of the detailed pass
Section(e) ==
  [name       |-> e.name,
   count      |-> issue_count(e.name, e.data),
   marker     |-> section_marker(e.name, e.data),
   severities |-> section_severities(e.name, e.data)]

\* generate_report leaving out the section of a plugin with an empty payload
generate_report_skip_empty(all_scan_results) ==
  IF \E i \in 1..Len(all_scan_results) : all_scan_results[i].data.type = "None"
  THEN [status |-> "raise", total |-> 0, sections |-> <<>>]
  ELSE LET shown == SelectSeq(all_scan_results, LAMBDA e : e.data.keys # {})
       IN  [status |-> "return",
            total |-> LET Sum[i \in 0..Len(all_scan_results)] ==
                            IF i = 0 THEN 0
                            ELSE Sum[i - 1] + issue_count(all_scan_results[i].name,
                                                          all_scan_results[i].data)
                      IN  Sum[Len(all_scan_results)],
            sections |-> [i \in 1..Len(shown) |-> Section(shown[i])]]

\* all_scan_results: sequence of [name, data] in insertion order
generate_report(all_scan_results) ==
  IF \E i \in 1..Len(all_scan_results) : all_scan_results[i].data.type = "None"
  THEN \* len(None) / None.get(...) raises in the quick pass
       [status |-> "raise", total |-> 0, sections |-> <<>>]
  ELSE [status |-> "return",
        total |-> LET Sum[i \in 0..Len(all_scan_results)] ==
                        IF i = 0 THEN 0
                        ELSE Sum[i - 1] + issue_count(all_scan_results[i].name,
                                                      all_scan_results[i].data)
                  IN  Sum[Len(all_scan_results)],
        sections |-> [i \in 1..Len(all_scan_results) |-> Section(all_scan_results[i])]]

----------------------------------------------------------------------------
(* The pipeline: main()                                                    *)

VARIABLES
  repo_input,      \* args.repo_path
  fs,              \* the filesystem: [dirs, files]
  fs_init,         \* the filesystem when main() started
  pc,              \* position in main(): "fetch", "blocked" (in a call that never
                   \* returns), "plugins", "report", "finally", "done"
  fetch,           \* what fetch_code_source did (NoFetch before the call)
  final_path,      \* the path fetch_code_source returned
  cleanup_needed,  \* the flag computed from final_path
  plugin_i,        \* number of plugins whose scan has been called
  scan_results,    \* sequence of [name, data], in insertion order
  failures,        \* for each called plugin, the way its scan failed
  raised,          \* an exception is propagating out of the try block
  report,          \* [written, total, sections]
  rm_calls,        \* number of rmtree calls that removed the fetcher's tmp_dir
  exit_status,     \* -1 while running, else the status of the process
  args,            \* the parsed flags: [no_bandit, no_eslint]
  req_lines,       \* the lines of the requirements.txt files below the root
  tool_log         \* for each called plugin, [name, status, runs, reads]

vars == <<repo_input, fs, fs_init, pc, fetch, final_path, cleanup_needed, plugin_i,
          scan_results, failures, raised, report, rm_calls, exit_status,
          args, req_lines, tool_log>>

EmptyFS == [dirs |-> {}, files |-> {}]

\* the trees a clone, an extraction or a local directory may hold
Trees == {{}, {A_PY, REQUIREMENTS_TXT}, {PACKAGE_JSON}}

\* the tree a PyPI archive holds: a package with a module
PypiTrees == {{A_PY}}

\* the tree an npm tarball holds: a package with its package.json
NpmTrees == {{PACKAGE_JSON}}

\* the inputs given on the command line
Inputs ==
  {IN_GH_URL, IN_GH_SHORT, IN_GH_FILE, IN_PYPI, IN_NPM, IN_URL, IN_URL_DIR,
   IN_LOCAL, IN_LOCAL_SCAN, IN_UNKNOWN}

\* the inputs that may also name something on the local disk
LocalCandidates == {IN_LOCAL, IN_LOCAL_SCAN, IN_LOCAL_REL, IN_UNKNOWN, IN_NPM}

\* the local filesystems main() may start in: the input names nothing,
\* a regular file, or a directory holding one of the trees
LocalFSOver(inp, trees) ==
  IF inp \in LocalCandidates
  THEN {EmptyFS, writefile(EmptyFS, inp)} \cup {AddTree(EmptyFS, inp, t) : t \in trees}
  ELSE {EmptyFS}

NoFetch == [branch |-> "none", status |-> "none", ret |-> NoPath, tmp |-> NoPath,
            mk |-> 0, rm |-> 0, target |-> <<>>, via |-> "none", tried |-> <<>>]

NoReport == [written |-> FALSE, total |-> 0, sections |-> <<>>]

\* main.py lines 57-58: computed from the flags and not read afterwards
use_bandit == ~args.no_bandit

use_eslint == ~args.no_eslint

\* no negative flag on the command line
NoFlags == [no_bandit |-> FALSE, no_eslint |-> FALSE]

\* the requirements.txt of the trees
DefaultReq == <<REQ_PIN>>

StartWith(inputs, trees, flags, reqs) ==
  /\ repo_input \in inputs
  /\ fs \in LocalFSOver(repo_input, trees)
  /\ fs_init = fs
  /\ pc = "fetch"
  /\ fetch = NoFetch
  /\ final_path = NoPath
  /\ cleanup_needed = FALSE
  /\ plugin_i = 0
  /\ scan_results = <<>>
  /\ failures = <<>>
  /\ raised = FALSE
  /\ report = NoReport
  /\ rm_calls = 0
  /\ exit_status = -1
  /\ args \in flags
  /\ req_lines \in reqs
  /\ tool_log = <<>>

Start(inputs) == StartWith(inputs, Trees, {NoFlags}, {DefaultReq})

Init == Start(Inputs)

\* main.py line 68
CleanupNeeded(path) ==
  StartsWith(path, TMP_REPO_SCAN) \/ Contains(path, REPO_SCAN_MARK)

\* main.py lines 61-68 for the result r of the fetch function of one branch:
\* a returned path starts the try block; sys.exit(1) and an uncaught
\* exception both end the process with status 1; a call that never returns
\* leaves the process blocked inside it
AfterFetch(branch, r) ==
  /\ fs' = r.fs
  /\ fetch' = [branch |-> branch, status |-> r.status, ret |-> r.ret, tmp |-> r.tmp,
               mk |-> r.mk, rm |-> r.rm, target |-> r.target, via |-> r.via,
               tried |-> r.tried]
  /\ rm_calls' = rm_calls + r.rm
  /\ IF r.status = "return"
     THEN /\ final_path' = r.ret
          /\ cleanup_needed' = CleanupNeeded(r.ret)
          /\ pc' = "plugins"
          /\ exit_status' = exit_status
     ELSE /\ final_path' = final_path
          /\ cleanup_needed' = cleanup_needed
          /\ pc' = IF r.status = "blocked" THEN "blocked" ELSE "done"
          /\ exit_status' = IF r.status = "blocked" THEN exit_status ELSE 1
  /\ UNCHANGED <<repo_input, fs_init, plugin_i, scan_results, failures, raised, report,
                 args, req_lines, tool_log>>

FetchGithubFile ==
  /\ pc = "fetch"
  /\ fetch_code_source(repo_input, fs) = "fetch_github_file"
  /\ \E out \in RemoteOutcomes :
        AfterFetch("fetch_github_file", fetch_github_file(repo_input, fs, out))

FetchGithubRepo ==
  /\ pc = "fetch"
  /\ fetch_code_source(repo_input, fs) = "fetch_github_repo"
  /\ \E out \in CloneOutcomes, tree \in Trees :
        AfterFetch("fetch_github_repo", fetch_github_repo(repo_input, fs, out, tree))

FetchPypiPackage ==
  /\ pc = "fetch"
  /\ fetch_code_source(repo_input, fs) = "fetch_pypi_package"
  /\ \E s1 \in Strategy1Outcomes, s2 \in PipOutcomes, s3 \in PipOutcomes,
        nested \in BOOLEAN, tree \in PypiTrees :
        AfterFetch("fetch_pypi_package",
                   fetch_pypi_package(Strip(AfterFirst(repo_input, <<":">>), {" "}),
                                      fs, s1, s2, s3, nested, tree))

FetchNpmPackage ==
  /\ pc = "fetch"
  /\ fetch_code_source(repo_input, fs) = "fetch_npm_package"
  /\ \E npm_present \in BOOLEAN, out \in NpmOutcomes, tree \in NpmTrees :
        AfterFetch("fetch_npm_package",
                   fetch_npm_package(Strip(AfterFirst(repo_input, NPM_PREFIX), {" "}),
                                     fs, npm_present, out, tree))

FetchRemoteFile ==
  /\ pc = "fetch"
  /\ fetch_code_source(repo_input, fs) = "fetch_remote_file"
  /\ \E out \in RemoteOutcomes :
        AfterFetch("fetch_remote_file", fetch_remote_file(repo_input, fs, out))

\* repo_handler.py lines 417-419: the input itself is returned
FetchLocal ==
  /\ pc = "fetch"
  /\ fetch_code_source(repo_input, fs) = "local"
  /\ AfterFetch("local",
                FetchResult(fs, "return", repo_input, NoPath, 0, 0, repo_input, "local"))

\* repo_handler.py lines 420-422: sys.exit(1)
FetchExit ==
  /\ pc = "fetch"
  /\ fetch_code_source(repo_input, fs) = "exit"
  /\ AfterFetch("exit",
                FetchResult(fs, "exit", NoPath, NoPath, 0, 0, repo_input, "unknown_format"))

\* the loop of main.py lines 82-86 with the cleanup done as soon as the last
\* plugin has returned
AfterScan_cleanup_after_last(r) ==
  /\ plugin_i' = plugin_i + 1
  /\ failures' = Append(failures, r.failure)
  /\ tool_log' = Append(tool_log, [name |-> plugins[plugin_i + 1], status |-> r.status,
                                   runs |-> r.runs, reads |-> r.reads])
  /\ IF r.status = "return"
     THEN /\ scan_results' = Append(scan_results,
                                    [name |-> plugins[plugin_i + 1], data |-> r.payload])
          /\ raised' = raised
          /\ pc' = IF plugin_i + 1 = Len(plugins) THEN "report" ELSE "plugins"
     ELSE /\ scan_results' = scan_results
          /\ raised' = TRUE
          /\ pc' = "finally"
  /\ fs' = IF r.status = "return" /\ plugin_i + 1 = Len(plugins) /\ cleanup_needed
           THEN rmtree(fs, final_path) ELSE fs
  /\ UNCHANGED <<repo_input, fs_init, fetch, final_path, cleanup_needed, report,
                 rm_calls, exit_status, args, req_lines>>

\* main.py lines 82-86 for the result r of one plugin.scan(final_path):
\* there is no except clause, so a raising scan leaves the loop
AfterScan(r) ==
  /\ plugin_i' = plugin_i + 1
  /\ failures' = Append(failures, r.failure)
  /\ tool_log' = Append(tool_log, [name |-> plugins[plugin_i + 1], status |-> r.status,
                                   runs |-> r.runs, reads |-> r.reads])
  /\ IF r.status = "return"
     THEN /\ scan_results' = Append(scan_results,
                                    [name |-> plugins[plugin_i + 1], data |-> r.payload])
          /\ raised' = raised
          /\ pc' = IF plugin_i + 1 = Len(plugins) THEN "report" ELSE "plugins"
     ELSE /\ scan_results' = scan_results
          /\ raised' = TRUE
          /\ pc' = "finally"
  /\ UNCHANGED <<repo_input, fs, fs_init, fetch, final_path, cleanup_needed, report,
                 rm_calls, exit_status, args, req_lines>>

\* the runs of an external tool: an outcome and, when the tool reported
\* normally, the number of issues it reported
ToolRuns(outcomes) ==
  {<<"ok", n>> : n \in 0..MaxIssues} \cup {<<o, 0>> : o \in outcomes \ {"ok"}}

\* the runs of an audit tool: it is not run for an empty dependency list
AuditRuns(deps, outcomes) ==
  IF deps = <<>> THEN {<<"ok", 0>>} ELSE ToolRuns(outcomes)

\* the runs of ESLint on one file: an outcome, the number of messages and
\* their severity code
ESLintRuns ==
  {<<"ok", 0, 0>>} \cup {<<"ok", n, c>> : n \in 1..MaxIssues, c \in {1, 2}}
    \cup {<<o, 0, 0>> : o \in {"bad_exit", "malformed"}}

\* the files os.walk may yield first; NoPath when it yields none
FirstFiles(fsys, target_path) ==
  IF file_list(fsys, target_path) = {} THEN {NoPath} ELSE file_list(fsys, target_path)

NextPlugin == IF plugin_i < Len(plugins) THEN plugins[plugin_i + 1] ELSE "none"

ScanRegex ==
  /\ pc = "plugins"
  /\ NextPlugin = "RegexPlugin"
  /\ \E read \in [file_list(fs, final_path) -> ReadOutcomes] :
        AfterScan(RegexPlugin_scan(fs, final_path, read))

ScanBandit ==
  /\ pc = "plugins"
  /\ NextPlugin = "BanditPlugin"
  /\ \E run \in ToolRuns(ToolOutcomes) :
        AfterScan(BanditPlugin_scan(final_path, run[1], run[2]))

ScanESLint ==
  /\ pc = "plugins"
  /\ NextPlugin = "ESLintPlugin"
  /\ \/ AfterScan(ESLintPlugin_scan(fs, final_path, FALSE, NoPath, "tool_missing", 0, 0))
     \/ \E first \in FirstFiles(fs, final_path), run \in ESLintRuns :
           AfterScan(ESLintPlugin_scan(fs, final_path, TRUE, first, run[1], run[2], run[3]))

ScanDependency ==
  /\ pc = "plugins"
  /\ NextPlugin = "DependencyPlugin"
  /\ LET deps == identify_repo_dependencies(fs, final_path, req_lines)
     IN  \E prun \in AuditRuns(deps.python, PipAuditOutcomes),
            nrun \in AuditRuns(deps.node, NpmAuditOutcomes) :
           AfterScan(DependencyPlugin_scan(fs, final_path, req_lines, prun[1], prun[2],
                                           nrun[1], nrun[2]))

\* main.py lines 90-98: generate the report and write it
WriteReport ==
  /\ pc = "report"
  /\ LET r == generate_report(scan_results)
     IN  IF r.status = "return"
         THEN /\ report' = [written |-> TRUE, total |-> r.total, sections |-> r.sections]
              /\ raised' = raised
         ELSE /\ report' = report
              /\ raised' = TRUE
  /\ pc' = "finally"
  /\ UNCHANGED <<repo_input, fs, fs_init, fetch, final_path, cleanup_needed, plugin_i,
                 scan_results, failures, rm_calls, exit_status, args, req_lines, tool_log>>

\* the end of main() with a status telling whether anything was found
Finally_status_from_findings ==
  /\ pc = "finally"
  /\ IF cleanup_needed /\ ~isfile(fs, final_path)
     THEN /\ fs' = rmtree(fs, final_path)
          /\ rm_calls' = IF fetch.tmp # NoPath /\ isdir(fs, fetch.tmp)
                            /\ Under(fetch.tmp, final_path)
                         THEN rm_calls + 1 ELSE rm_calls
     ELSE /\ fs' = fs
          /\ rm_calls' = rm_calls
  /\ pc' = "done"
  /\ exit_status' = IF raised \/ report.total > 0 THEN 1 ELSE 0
  /\ UNCHANGED <<repo_input, fs_init, fetch, final_path, cleanup_needed, plugin_i,
                 scan_results, failures, raised, report, args, req_lines, tool_log>>

\* main.py lines 99-105, then the end of main() or the propagating exception
Finally ==
  /\ pc = "finally"
  /\ IF cleanup_needed /\ ~isfile(fs, final_path)
     THEN /\ fs' = rmtree(fs, final_path)
          /\ rm_calls' = IF fetch.tmp # NoPath /\ isdir(fs, fetch.tmp)
                            /\ Under(fetch.tmp, final_path)
                         THEN rm_calls + 1 ELSE rm_calls
     ELSE /\ fs' = fs
          /\ rm_calls' = rm_calls
  /\ pc' = "done"
  /\ exit_status' = IF raised THEN 1 ELSE 0
  /\ UNCHANGED <<repo_input, fs_init, fetch, final_path, cleanup_needed, plugin_i,
                 scan_results, failures, raised, report, args, req_lines, tool_log>>

\* main.py line 61: the call of fetch_code_source
Fetch ==
  \/ FetchGithubFile
  \/ FetchGithubRepo
  \/ FetchPypiPackage
  \/ FetchNpmPackage
  \/ FetchRemoteFile
  \/ FetchLocal
  \/ FetchExit

Next ==
  \/ Fetch
  \/ ScanRegex
  \/ ScanBandit
  \/ ScanESLint
  \/ ScanDependency
  \/ WriteReport
  \/ Finally

Spec == Init /\ [][Next]_vars

----------------------------------------------------------------------------
(* A local root alone, under every combination of the negative flags       *)

AllFlags == [no_bandit : BOOLEAN, no_eslint : BOOLEAN]

InitFlags == StartWith({IN_LOCAL}, Trees, AllFlags, {DefaultReq})

\* main() on an input that is neither a URL nor a package reference
NextLocal ==
  \/ FetchLocal
  \/ FetchExit
  \/ ScanRegex
  \/ ScanBandit
  \/ ScanESLint
  \/ ScanDependency
  \/ WriteReport
  \/ Finally

SpecFlags == InitFlags /\ [][NextLocal]_vars

----------------------------------------------------------------------------
(* A local root holding a dependency file, over a family of such files     *)

\* the lines a requirements.txt is made of: a pin, a lower bound, a bare
\* name, a comment, a pin with an environment marker
ReqLinePool == {REQ_PIN, REQ_LOWER, REQ_BARE, REQ_COMMENT, REQ_MARKER}

ReqFiles == UNION {[1..n -> ReqLinePool] : n \in 0..MaxReqLines}

InitDeps ==
  /\ StartWith({IN_LOCAL}, {{REQUIREMENTS_TXT}, {PYPROJECT_TOML}}, {NoFlags}, ReqFiles)
  /\ (\A f \in WalkFiles(fs, repo_input) : basename(f) # REQUIREMENTS_TXT)
        => req_lines = <<>>

SpecDeps == InitDeps /\ [][NextLocal]_vars

----------------------------------------------------------------------------
(* Source resolution alone, over a larger family of inputs                 *)

Owners == {<<"o">>, <<"p">>}
Names == {<<"n">>, <<"m">>}
Refs == {<<"m">>}
Paths == {<<"a",".","p","y">>, <<"d","/","b",".","j","s">>,
          <<"b","l","o","b","/","a",".","p","y">>}

\* owner/name, with and without the .git suffix
RepoPaths ==
  {o \o <<"/">> \o n : o \in Owners, n \in Names}
    \cup {o \o <<"/">> \o n \o <<".","g","i","t">> : o \in Owners, n \in Names}

\* github:owner/name
ShortForms == {GITHUB_SHORT_PREFIX \o r : r \in RepoPaths}

\* https://github.com/owner/name
UrlForms == {GITHUB_URL_PREFIX \o r : r \in RepoPaths}

\* /blob/<ref>/<path>
BrowseSegments == {BLOB_SEGMENT \o r \o <<"/">> \o p : r \in Refs, p \in Paths}

WithBrowse(forms) == {f \o b : f \in forms, b \in BrowseSegments}

ResolveInputs ==
  ShortForms \cup UrlForms \cup WithBrowse(ShortForms) \cup WithBrowse(UrlForms)
    \cup {IN_GH_URL, IN_GH_GIT, IN_GH_SHORT, IN_GH_FILE, IN_GH_SHORT_BLOB, IN_GH_HTTP,
          IN_PYPI, IN_PIP, IN_NPM, IN_URL, IN_URL_HTTP, IN_URL_DIR, IN_URL_BLOB,
          IN_LOCAL, IN_LOCAL_SCAN, IN_LOCAL_REL, IN_UNKNOWN}

InitResolve == Start(ResolveInputs)

SpecResolve == InitResolve /\ [][Fetch]_vars

----------------------------------------------------------------------------
(* Claims                                                                  *)

\* C1: once the pipeline has terminated, the temporary directory the fetcher
\* created no longer exists and was removed exactly once.
C1_TempDirReclaimedOnce ==
  (pc = "done" /\ fetch.mk > 0) => (~isdir(fs, fetch.tmp) /\ rm_calls = 1)

\* C2: a LocalPath input is neither deleted nor modified by the run.
C2_LocalPathUntouched ==
  (pc = "done" /\ fetch.branch = "local") => fs = fs_init

\* The ways of failing named by C3
FailureWays == {"raised", "tool_missing", "bad_exit", "malformed"}

\* the engine recorded an empty result for the i-th plugin
RecordedEmpty(i) ==
  \E j \in 1..Len(scan_results) :
     /\ scan_results[j].name = plugins[i]
     /\ scan_results[j].data.type = "dict"
     /\ scan_results[j].data.hits = {}
     /\ scan_results[j].data.issues = <<>>
     /\ scan_results[j].data.vulns = <<>>

\* C3: whatever way a plugin's scan fails, the engine records an empty result
\* for it and still invokes every later plugin.
C3_PluginFailureIsolated ==
  (pc = "done" /\ fetch.status = "return") =>
     /\ plugin_i = Len(plugins)
     /\ \A i \in 1..Len(failures) : failures[i] \in FailureWays => RecordedEmpty(i)

\* C4: when fetch_code_source returned a path, the run ends with the report
\* generated and written.
C4_ReportAlwaysWritten ==
  (pc = "done" /\ fetch.status = "return") => report.written

\* the variant the claim's priority rules give to an input
ExpectedKind(s, fsys) ==
  IF StartsWith(s, GITHUB_URL_PREFIX) /\ Contains(s, BLOB_SEGMENT) THEN "GitFile"
  ELSE IF StartsWith(s, GITHUB_URL_PREFIX) \/ StartsWith(s, GITHUB_SHORT_PREFIX)
       THEN "GitRepo"
  ELSE IF StartsWith(s, PYPI_PREFIX) \/ StartsWith(s, PIP_PREFIX) THEN "Registry pypi"
  ELSE IF StartsWith(s, NPM_PREFIX) THEN "Registry npm"
  ELSE IF StartsWith(s, HTTP_PREFIX) \/ StartsWith(s, HTTPS_PREFIX) THEN "RemoteFile"
  ELSE IF s \in fsys.files \cup fsys.dirs THEN "LocalPath"
  ELSE "Fatal"

\* the variant served by each branch of fetch_code_source
KindOfBranch(b) ==
  CASE b = "fetch_github_file" -> "GitFile"
    [] b = "fetch_github_repo" -> "GitRepo"
    [] b = "fetch_pypi_package" -> "Registry pypi"
    [] b = "fetch_npm_package" -> "Registry npm"
    [] b = "fetch_remote_file" -> "RemoteFile"
    [] b = "local" -> "LocalPath"
    [] OTHER -> "Fatal"

\* C5: every input gets the outcome of the first matching rule in the order
\* GitFile, GitRepo, Registry, RemoteFile, LocalPath, fatal; the outcome is a
\* function of the input (and of the disk), and at most one fetcher ran.
C5_PriorityClassification ==
  fetch.branch # "none" =>
     /\ KindOfBranch(fetch.branch) = ExpectedKind(repo_input, fs_init)
     /\ fetch.mk <= 1
     /\ (fetch.branch \in {"local", "exit"} => fetch.mk = 0)

\* C5 witness: a registry prefix wins over an existing local directory of that name
C5_Witness ==
  /\ fetch.branch = "fetch_npm_package"
  /\ repo_input \in fs_init.dirs

C7_FailedFetchLeavesNoTempDir ==
  fetch.status \in {"exit", "raise"} => (fetch.tmp = NoPath \/ ~isdir(fs, fetch.tmp))

\* C8: a git clone that exits non-zero ends the run with a non-zero status and
\* the temporary clone directory no longer exists.
C8_CloneFailureIsFatalAndClean ==
  fetch.via = "clone_nonzero" =>
     /\ pc = "done"
     /\ exit_status > 0
     /\ fetch.tmp # NoPath
     /\ ~isdir(fs, fetch.tmp)
     /\ WalkFiles(fs, fetch.tmp) = {}

C8_Witness ==
  /\ pc = "done"
  /\ fetch.branch = "fetch_github_repo"
  /\ fetch.via = "clone_nonzero"

\* the input matches none of the schemes
NoKnownScheme(s) ==
  /\ ~StartsWith(s, GITHUB_URL_PREFIX)
  /\ ~StartsWith(s, GITHUB_SHORT_PREFIX)
  /\ ~StartsWith(s, PYPI_PREFIX)
  /\ ~StartsWith(s, PIP_PREFIX)
  /\ ~StartsWith(s, NPM_PREFIX)
  /\ ~StartsWith(s, HTTP_PREFIX)
  /\ ~StartsWith(s, HTTPS_PREFIX)

\* C9: an input of no known scheme that is not an existing local path ends the
\* run with a non-zero status; no temporary storage is ever created and no
\* plugin is ever invoked.
C9_UnknownInputFatalBeforeStorage ==
  (NoKnownScheme(repo_input) /\ repo_input \notin fs_init.files \cup fs_init.dirs) =>
     /\ fetch.mk = 0
     /\ fs = fs_init
     /\ plugin_i = 0
     /\ scan_results = <<>>
     /\ pc \in {"fetch", "done"}
     /\ (pc = "done" => exit_status > 0)

C9_Witness ==
  /\ pc = "done"
  /\ NoKnownScheme(repo_input)
  /\ repo_input \notin fs_init.files \cup fs_init.dirs
  /\ exit_status = 1

\* C10: with npm not installed, fetching an npm: input ends the run with a
\* non-zero status and no temporary directory has been created.
C10_NpmMissingFailsBeforeMkdtemp ==
  fetch.via = "npm_missing" =>
     /\ pc = "done"
     /\ exit_status > 0
     /\ fetch.mk = 0
     /\ fetch.tmp = NoPath
     /\ fs = fs_init

C10_Witness ==
  /\ pc = "done"
  /\ StartsWith(repo_input, NPM_PREFIX)
  /\ fetch.via = "npm_missing"

\* the payload carries no findings
NoFindings(data) ==
  data.type = "dict" /\ data.hits = {} /\ data.issues = <<>> /\ data.vulns = <<>>

\* C11: the report has exactly one section per plugin that ran, in the
\* registration order of the plugins, whatever each plugin returned.
C11_SectionsInRegistrationOrder ==
  report.written =>
     /\ Len(report.sections) = plugin_i
     /\ plugin_i = Len(plugins)
     /\ \A i \in 1..Len(report.sections) : report.sections[i].name = plugins[i]

\* C11 witness: a written report after scans with and without findings
C11_Witness ==
  /\ report.written
  /\ \E i, j \in 1..Len(scan_results) :
        /\ NoFindings(scan_results[i].data)
        /\ ~NoFindings(scan_results[j].data)

\* C12: in a report, a plugin whose payload carries no findings still has its
\* section, with a no-issues marker; when no payload carries findings the
\* total is 0 and every section has the marker.
C12_EmptyPayloadKeepsMarkedSection ==
  report.written =>
     /\ \A i \in 1..Len(scan_results) :
           NoFindings(scan_results[i].data) =>
              /\ i <= Len(report.sections)
              /\ report.sections[i].name = scan_results[i].name
              /\ report.sections[i].marker
     /\ (\A i \in 1..Len(scan_results) : NoFindings(scan_results[i].data)) =>
           /\ report.total = 0
           /\ \A k \in 1..Len(report.sections) : report.sections[k].marker

\* C12 witness: a written report of four payloads without findings, the
\* dependency payload being the non-empty dict of an empty manifest
C12_Witness ==
  /\ report.written
  /\ Len(scan_results) = Len(plugins)
  /\ \A i \in 1..Len(scan_results) : NoFindings(scan_results[i].data)
  /\ scan_results[4].data.keys # {}

\* the payload recorded for a plugin
ResultOf(name) ==
  LET j == CHOOSE k \in 1..Len(scan_results) : scan_results[k].name = name
  IN  scan_results[j].data

HasResult(name) == \E k \in 1..Len(scan_results) : scan_results[k].name = name

\* the scan of a plugin has been called
Invoked(name) == \E i \in 1..Len(tool_log) : tool_log[i].name = name

\* C13: with --no-bandit (--no-eslint) the scan of the Bandit (ESLint) plugin
\* is never invoked and no result of it is recorded.
C13_DisabledPluginNeverInvoked ==
  /\ args.no_bandit => ~Invoked("BanditPlugin") /\ ~HasResult("BanditPlugin")
  /\ args.no_eslint => ~Invoked("ESLintPlugin") /\ ~HasResult("ESLintPlugin")

\* C14: when the process has ended, its status is non-zero if the fetch step
\* failed (unknown input, failed fetch, required tool absent) and zero if a
\* report was generated, whatever its number of findings.
C14_ExitStatus ==
  pc = "done" =>
     /\ fetch.status # "return" => exit_status > 0
     /\ report.written => exit_status = 0

\* C14 witness: the process ended with status 0 after a report with findings
C14_Witness ==
  /\ pc = "done"
  /\ report.written
  /\ report.total > 0
  /\ exit_status = 0

\* a requirements line of the form pkg==ver
IsPin(line) ==
  LET l     == Strip(line, WHITESPACE)
      parts == Split(l, EQEQ)
  IN  /\ ~StartsWith(l, <<"#">>)
      /\ Len(parts) = 2
      /\ Strip(parts[1], WHITESPACE) # <<>>
      /\ Strip(parts[2], WHITESPACE) # <<>>

PinName(line) == Strip(Split(Strip(line, WHITESPACE), EQEQ)[1], WHITESPACE)

PinVersion(line) == Strip(Split(Strip(line, WHITESPACE), EQEQ)[2], WHITESPACE)

\* a requirements.txt lies under the scanned root and the dependency
\* plugin has returned
ManifestReturned ==
  /\ pc # "done"
  /\ HasResult("DependencyPlugin")
  /\ \E f \in WalkFiles(fs, final_path) : basename(f) = REQUIREMENTS_TXT

InManifest(entry) ==
  \E m \in 1..Len(ResultOf("DependencyPlugin").manifest) :
     ResultOf("DependencyPlugin").manifest[m] = entry

OperatorAt(l) ==
  LET at == {i \in 1..(Len(l) - 1) : SubSeq(l, i, i + 1) \in {EQEQ, GTEQ}}
  IN  IF at = {} THEN 0 ELSE CHOOSE i \in at : \A j \in at : i <= j

\* what a requirement line says: package name, comparison operator, version
Requirement(line) ==
  LET l == Strip(line, WHITESPACE)
      i == OperatorAt(l)
  IN  IF i = 0 THEN [name |-> l, operator |-> <<>>, version |-> <<>>]
      ELSE [name     |-> Strip(SubSeq(l, 1, i - 1), WHITESPACE),
            operator |-> SubSeq(l, i, i + 1),
            version  |-> Strip(SubSeq(l, i + 2, Len(l)), WHITESPACE)]

\* a line of one of the forms pkg==ver, pkg>=ver, pkg
IsSupportedForm(line) ==
  LET l == Strip(line, WHITESPACE)
      r == Requirement(line)
  IN  /\ l # <<>>
      /\ ~StartsWith(l, <<"#">>)
      /\ r.name # <<>>
      /\ OperatorAt(l) # 0 => r.version # <<>> /\ OperatorAt(r.version) = 0

\* the runs of one tool recorded so far
RunsOf(tool) ==
  {r \in UNION {{tool_log[i].runs[k] : k \in 1..Len(tool_log[i].runs)} :
                   i \in 1..Len(tool_log)} : r.tool = tool}

\* C16: every line pkg==ver, pkg>=ver or pkg of the parsed requirements.txt
\* appears in the requirements file written for pip-audit as a line with
\* the same package name, the same operator and the same version.
C16_RenderedRequirementRoundTrip ==
  \A r \in RunsOf("pip-audit") :
     \A k \in 1..Len(req_lines) :
        IsSupportedForm(req_lines[k]) =>
           \E m \in 1..Len(r.input) : Requirement(r.input[m]) = Requirement(req_lines[k])

\* C17: fetch_pypi_package starts its strategies in the order 1, 2, 3; a
\* strategy whose download and extraction succeed returns, and nothing is
\* started after it; the function returns with the last strategy it started
\* and is fatal only after three failed strategies.
C17_StrategiesInOrderFirstSuccessWins ==
  fetch.branch = "fetch_pypi_package" =>
     LET t == fetch.tried
     IN  /\ Len(t) \in 1..3
         /\ \A i \in 1..Len(t) : t[i].strategy = i
         /\ \A i \in 1..Len(t) : t[i].outcome = "ok" => t[i].returned
         /\ \A i \in 1..Len(t) : t[i].returned => i = Len(t)
         /\ fetch.status = "return" =>
               /\ t[Len(t)].returned
               /\ fetch.via = <<"strategy1", "strategy2", "strategy3">>[Len(t)]
         /\ fetch.status \in {"return", "exit", "blocked"}
         /\ fetch.status = "exit" =>
               /\ Len(t) = 3
               /\ \A i \in 1..3 : ~t[i].returned

\* C17 witness: the second strategy returned after the first had failed
C17_Witness ==
  /\ fetch.branch = "fetch_pypi_package"
  /\ fetch.status = "return"
  /\ Len(fetch.tried) = 2
  /\ fetch.tried[1].outcome = "api_error"
  /\ fetch.tried[2].outcome = "ok"

\* the severities of the canonical scale
CanonicalSeverities == {"info", "warning", "error", "unknown"}

\* C18: every finding of a written report carries a severity of the
\* canonical scale.
C18_ReportSeveritiesCanonical ==
  report.written =>
     \A i \in 1..Len(report.sections) :
        \A k \in 1..Len(report.sections[i].severities) :
           report.sections[i].severities[k] \in CanonicalSeverities

\* the tool_log entries of the two lint plugins
LintEntries ==
  {i \in 1..Len(tool_log) : tool_log[i].name \in {"BanditPlugin", "ESLintPlugin"}}

\* C19: a run of Bandit or ESLint ending with code 0 or 1 whose output is
\* JSON puts the issues of that output into the result; a run ending with
\* another code gives the empty result; the scan returns in both cases.
C19_ExitCodeConvention ==
  \A i \in LintEntries :
     \A k \in 1..Len(tool_log[i].runs) :
        LET run == tool_log[i].runs[k]
        IN  run.rc # -1 =>
              /\ tool_log[i].status = "return"
              /\ HasResult(tool_log[i].name)
              /\ run.rc \in {0, 1} /\ run.json =>
                    /\ ResultOf(tool_log[i].name).type = "dict"
                    /\ Len(ResultOf(tool_log[i].name).issues) = run.reported
              /\ run.rc \notin {0, 1} => ResultOf(tool_log[i].name) = EmptyDict

\* C19 witness: Bandit ended with code 1 and its issue is in the result,
\* ESLint ended with code 2 and its result is empty
C19_Witness ==
  /\ \E r \in RunsOf("bandit") : r.rc = 1 /\ r.reported > 0
  /\ HasResult("BanditPlugin")
  /\ Len(ResultOf("BanditPlugin").issues) > 0
  /\ \E r \in RunsOf("eslint") : r.rc = 2
  /\ HasResult("ESLintPlugin")
  /\ ResultOf("ESLintPlugin") = EmptyDict

\* C20: when the root is a directory and ESLint is installed, the files the
\* ESLint plugin has linted are the files below the root.
C20_ESLintLintsEveryFile ==
  \A i \in 1..Len(tool_log) :
     (/\ tool_log[i].name = "ESLintPlugin"
      /\ pc # "done"
      /\ isdir(fs, final_path)
      /\ failures[i] # "tool_missing") =>
        {r.target : r \in RunsOf("eslint")} = file_list(fs, final_path)

\* C21: a plugin whose tool gave malformed output (not JSON, or JSON of
\* another shape than expected) returns, and its result is recorded, so
\* that the loop goes on with the next plugin.
C21_MalformedOutputNotFatal ==
  \A i \in 1..Len(tool_log) :
     failures[i] = "malformed" =>
        /\ tool_log[i].status = "return"
        /\ HasResult(tool_log[i].name)

\* C22: the pattern plugin returns, with an entry for every collected file
\* that could not be read and, unchanged, the matches of every other file.
C22_UnreadableFileIsRecorded ==
  \A i \in 1..Len(tool_log) :
     tool_log[i].name = "RegexPlugin" =>
        /\ tool_log[i].status = "return"
        /\ HasResult("RegexPlugin")
        /\ \A f \in DOMAIN tool_log[i].reads :
              LET data == ResultOf("RegexPlugin")
                  how  == tool_log[i].reads[f]
              IN  /\ how = "unreadable" => <<f, "error_reading">> \in data.hits
                  /\ how = "unreadable" => f \in data.keys
                  /\ how \in {"match", "match_two"} => <<f, "eval_call">> \in data.hits
                  /\ how = "match_two" => <<f, "exec_call">> \in data.hits
                  /\ how = "clean" => f \notin data.keys

\* C22 witness: of two collected files one could not be read and the other
\* matched a pattern
C22_Witness ==
  /\ HasResult("RegexPlugin")
  /\ \E i \in 1..Len(tool_log) :
        /\ tool_log[i].name = "RegexPlugin"
        /\ \E f, g \in DOMAIN tool_log[i].reads :
              /\ tool_log[i].reads[f] = "unreadable"
              /\ tool_log[i].reads[g] = "match"
              /\ <<g, "eval_call">> \in ResultOf("RegexPlugin").hits

\* C23: whenever stderr of a pip-audit run held ResolutionImpossible, the
\* dependency plugin returns and its issues hold the synthetic finding of
\* severity medium.
C23_ConflictNeverDropped ==
  \A i \in 1..Len(tool_log) :
     \A k \in 1..Len(tool_log[i].runs) :
        tool_log[i].runs[k].tool = "pip-audit" /\ tool_log[i].runs[k].conflict =>
           /\ tool_log[i].status = "return"
           /\ HasResult("DependencyPlugin")
           /\ \E v \in 1..Len(ResultOf("DependencyPlugin").vulns) :
                 /\ ResultOf("DependencyPlugin").vulns[v].package = REQUIREMENTS
                 /\ ResultOf("DependencyPlugin").vulns[v].severity = "medium"

\* C24: no network request of a fetch waits without end: the process is
\* never blocked inside a request that does not return (a blocked process
\* takes no further step, so the fetch then never terminates).
C24_NoRequestBlocksForever == pc # "blocked"

\* C25: the materialized root is destroyed only at the end of the pipeline:
\* while a plugin is still to run, while the report is still to be generated
\* and until the cleanup step itself, the root returned by the fetch exists.
C25_RootKeptUntilCleanup ==
  pc \in {"plugins", "report", "finally"} =>
     isdir(fs, final_path) \/ isfile(fs, final_path)

\* a temporary root still in place after the report was written, about to be
\* removed
C25_Witness ==
  /\ pc = "finally"
  /\ cleanup_needed
  /\ report.written
  /\ plugin_i = Len(plugins)
  /\ isdir(fs, final_path)

\* C26: the scan of every plugin returns a mapping, possibly an empty one,
\* for every target: no stored result is None.
C26_ScanReturnsMapping ==
  \A i \in 1..Len(scan_results) : scan_results[i].data.type = "dict"

\* the URL https://raw.githubusercontent.com/<owner>/<repo>/<ref>/<path> of the
\* input https://github.com/<owner>/<repo>/blob/<ref>/<path>
RawUrlOf(url) ==
  LET rest     == AfterFirst(url, GITHUB_URL_PREFIX)
      ref_path == AfterFirst(rest, BLOB_SEGMENT)
      repo     == SubSeq(rest, 1, Len(rest) - Len(ref_path) - Len(BLOB_SEGMENT))
  IN  HTTPS_PREFIX \o RAW_HOST \o <<"/">> \o repo \o <<"/">> \o ref_path

\* C27: for every input https://github.com/<owner>/<repo>/blob/<ref>/<path>,
\* also when the ref or the path holds "/blob/" or "github.com", the URL
\* handed to the remote-file fetcher is the raw-content URL of that file.
C27_RawUrlOfGitFile ==
  (fetch # NoFetch /\ fetch.branch = "fetch_github_file"
     /\ StartsWith(repo_input, GITHUB_URL_PREFIX)) =>
        fetch.target = RawUrlOf(repo_input)

\* the number of findings a payload holds: one per (file, category) pair of
\* a pattern payload, one per issue of a tool list, one per vulnerability of
\* the dependency payload
FindingsIn(name, data) ==
  CASE name = "RegexPlugin" -> Cardinality(data.hits)
    [] name \in {"BanditPlugin", "ESLintPlugin"} -> Len(data.issues)
    [] OTHER -> Len(data.vulns)

RECURSIVE SumFindings(_)
SumFindings(results) ==
  IF results = <<>> THEN 0
  ELSE FindingsIn(Head(results).name, Head(results).data) + SumFindings(Tail(results))

\* C28: in a written report the issue count of every section is the number
\* of findings of that plugin's payload, and the total is their sum.
C28_CountsAreFindings ==
  report.written =>
     /\ \A i \in 1..Len(report.sections) :
           report.sections[i].count =
              FindingsIn(scan_results[i].name, scan_results[i].data)
     /\ report.total = SumFindings(scan_results)

\* a pyproject.toml lies under the scanned root and the dependency plugin
\* has returned
PyprojectScanned ==
  /\ pc # "done"
  /\ HasResult("DependencyPlugin")
  /\ \E f \in WalkFiles(fs, final_path) : basename(f) = PYPROJECT_TOML

\* C29: the dependencies a pyproject.toml under the root declares are
\* identified: each is counted in the returned manifest and handed to the
\* vulnerability check, which runs pip-audit on a requirements file naming it.
C29_PyprojectDependenciesIdentified ==
  PyprojectScanned =>
     \A i \in 1..Len(parse_pyproject_toml(PYPROJECT_DEPENDENCIES)) :
        LET d == parse_pyproject_toml(PYPROJECT_DEPENDENCIES)[i]
        IN  /\ InManifest(<<d[1]>>)
            /\ \E r \in RunsOf("pip-audit") :
                  \E k \in 1..Len(r.input) : StartsWith(r.input[k], d[1])

\* C30: when fetch_pypi_package returns from a strategy, what it extracted is
\* the artifact that strategy itself downloaded: the strategy it returned
\* from is one whose own download and extraction succeeded, never one that
\* downloaded nothing and found the archive of an earlier failed strategy.
C30_ReturnedFromOwnArtifact ==
  (fetch.branch = "fetch_pypi_package" /\ fetch.status = "return") =>
     fetch.tried[Len(fetch.tried)].outcome = "ok"

====
